---- MODULE Spec2Model ----
(***************************************************************************)
(* Model of api/analysis.py: the moving-average setup analysis             *)
(* (calculate_setup_conditions), the per-ticker batch loop                 *)
(* (analyze_ibov_stocks) and the serverless entry point (handler).         *)
(*                                                                         *)
(* Prices are fixed-point integers in cents.  A rolling mean over a window *)
(* of w bars is kept as the window SUM (the mean times w), so that every   *)
(* comparison of the source is decided in exact integer arithmetic:        *)
(*     a/20 > (b/20) * 1.002      <=>   a * 1000 > b * 1002                *)
(*     |c - a/20| / (a/20) <= 0.015  <=>  |20c - a| * 1000 <= 15 * a       *)
(* round(x, 2) is rounding to the nearest cent; on an exact tie the binary *)
(* floating-point value of x lies on either side, so both neighbours are   *)
(* possible results.                                                       *)
(***************************************************************************)
EXTENDS Integers, Sequences, FiniteSets, TLC

VARIABLES pc, tickers, i, fetched, df, result, error, analysis_results, response

vars == <<pc, tickers, i, fetched, df, result, error, analysis_results, response>>

----------------------------------------------------------------------------
(* Configuration, analysis.py lines 8-13 *)

MMA_SHORT == 9
MMA_LONG == 20
\* THRESHOLD_PROXIMITY = 0.015 as the fraction ThresholdNum / ThresholdDen
ThresholdNum == 15
ThresholdDen == 1000
\* the literal 5 of `len(df) >= MMA_LONG + 5`
TrendMinExtra == 5
\* the literal 5 of `df.iloc[-5]`
TrendIloc == 5

\* Python's None in a price field, and the NaN of an incomplete rolling window
None == -1
NaN == -2

----------------------------------------------------------------------------
(* Bounds of the model *)

MaxBars == 26
MaxTickers == 3

\* closing prices in cents
Prices == {1000, 1009, 1020, 3797, 3857}

----------------------------------------------------------------------------
(* Data frames *)

RECURSIVE SumRange(_, _, _)
SumRange(s, lo, hi) == IF lo > hi THEN 0 ELSE s[hi] + SumRange(s, lo, hi - 1)

\* df['Close'].rolling(window=w) summed: NaN until the window is full
Rolling(close, w) ==
    [j \in 1..Len(close) |-> IF j < w THEN NaN ELSE SumRange(close, j - w + 1, j)]

\* a frame as returned by the provider: only the fetched columns
Frame(close) == [columns |-> {"Open", "High", "Low", "Close", "Volume"},
                 Close |-> close, MMA9 |-> <<>>, MMA20 |-> <<>>]

\* df['MMA9'] = ...; df['MMA20'] = ...   (in place, on the caller's frame)
WithAverages(d) == [columns |-> d.columns \cup {"MMA9", "MMA20"},
                    Close |-> d.Close,
                    MMA9 |-> Rolling(d.Close, MMA_SHORT),
                    MMA20 |-> Rolling(d.Close, MMA_LONG)]

\* series.iloc[-k]
Iloc(s, k) == s[Len(s) - k + 1]

\* n bars: the first n-k-1 close at p, the next k at q, the last one at c
StepBars(n, p, q, k, c) ==
    [j \in 1..n |-> IF j = n THEN c ELSE IF j < n - k THEN p ELSE q]

----------------------------------------------------------------------------
(* calculate_setup_conditions, analysis.py lines 15-99 *)

Abs(x) == IF x < 0 THEN -x ELSE x

\* round(num/den, 2) in cents: the nearest integer(s) to num/den
RoundSet(num, den) ==
    {r \in {num \div den, (num \div den) + 1} : 2 * Abs(r * den - num) <= den}

\* ticker.replace(".SA", "")
StripSA(t) == CASE t = "PETR4.SA" -> "PETR4"
                [] t = "VALE3.SA" -> "VALE3"
                [] t = "ITUB4.SA" -> "ITUB4"
                [] t = "BBDC4.SA" -> "BBDC4"
                [] OTHER -> t

\* the guard of line 26 with <= in place of <
InsufficientData_OffByOne(d) == Len(d.Close) = 0 \/ Len(d.Close) <= MMA_LONG

\* line 26: df.empty or len(df) < MMA_LONG
InsufficientData(d) == Len(d.Close) = 0 \/ Len(d.Close) < MMA_LONG

\* lines 42-51; d carries the MMA20 column (window sums), comparisons with
\* a NaN operand are false
TrendOf(d) ==
    IF Len(d.Close) >= MMA_LONG + TrendMinExtra
    THEN LET mms20 == Iloc(d.MMA20, 1)
             mms20_past == Iloc(d.MMA20, TrendIloc)
             ok == mms20 # NaN /\ mms20_past # NaN
         IN  IF ok /\ mms20 * 1000 > mms20_past * 1002 THEN "Alta"
             ELSE IF ok /\ mms20 * 1000 < mms20_past * 998 THEN "Baixa"
             ELSE "Lateral"
    ELSE "Indefinida"

\* lines 54-55; mms20 is the 20-bar window sum
IsCloseToMms20(current_price, mms20) ==
    Abs(MMA_LONG * current_price - mms20) * ThresholdDen <= ThresholdNum * mms20

\* line 58
IsSetupCandidate(is_close, trend) == is_close /\ trend # "Lateral"

\* line 58: `a and b` yields a itself when a is falsy; a is the numpy.bool_
\* produced by the comparison of line 55, b is a Python bool
CandidateType(is_close) == IF is_close THEN "bool" ELSE "numpy.bool_"

NoLevels == [entry_price |-> None, target_price |-> None, stop_loss_price |-> None]

\* lines 60-85 with the Baixa branch leaving stop_loss_price unassigned
Levels_NoStopForBaixa(is_setup_candidate, trend, mms9) ==
    IF is_setup_candidate /\ trend = "Alta"
    THEN {[entry_price |-> e, target_price |-> t, stop_loss_price |-> s] :
            e \in RoundSet(mms9 * 101, MMA_SHORT * 100),
            t \in RoundSet(mms9 * 101 * 105, MMA_SHORT * 10000),
            s \in RoundSet(mms9 * 101 * 95, MMA_SHORT * 10000)}
    ELSE IF is_setup_candidate /\ trend = "Baixa"
    THEN {[entry_price |-> e, target_price |-> t, stop_loss_price |-> None] :
            e \in RoundSet(mms9 * 99, MMA_SHORT * 100),
            t \in RoundSet(mms9 * 99 * 95, MMA_SHORT * 10000)}
    ELSE {NoLevels}

\* lines 60-85 with entry_price rounded before distance is taken from it
Levels_FromRoundedEntry(is_setup_candidate, trend, mms9) ==
    IF is_setup_candidate /\ trend = "Alta"
    THEN UNION {{[entry_price |-> e, target_price |-> t, stop_loss_price |-> s] :
                    t \in RoundSet(e * 105, 100), s \in RoundSet(e * 95, 100)} :
                 e \in RoundSet(mms9 * 101, MMA_SHORT * 100)}
    ELSE IF is_setup_candidate /\ trend = "Baixa"
    THEN UNION {{[entry_price |-> e, target_price |-> t, stop_loss_price |-> s] :
                    t \in RoundSet(e * 95, 100), s \in RoundSet(e * 105, 100)} :
                 e \in RoundSet(mms9 * 99, MMA_SHORT * 100)}
    ELSE {NoLevels}

\* lines 60-85; mms9 is the 9-bar window sum, so entry = mms9 * 101 / 900
\* for Alta and mms9 * 99 / 900 for Baixa; distance = entry * 0.05 is taken
\* from the unrounded entry, and the three values are rounded at the end
Levels(is_setup_candidate, trend, mms9) ==
    IF is_setup_candidate /\ trend = "Alta"
    THEN {[entry_price |-> e, target_price |-> t, stop_loss_price |-> s] :
            e \in RoundSet(mms9 * 101, MMA_SHORT * 100),
            t \in RoundSet(mms9 * 101 * 105, MMA_SHORT * 10000),
            s \in RoundSet(mms9 * 101 * 95, MMA_SHORT * 10000)}
    ELSE IF is_setup_candidate /\ trend = "Baixa"
    THEN {[entry_price |-> e, target_price |-> t, stop_loss_price |-> s] :
            e \in RoundSet(mms9 * 99, MMA_SHORT * 100),
            t \in RoundSet(mms9 * 99 * 95, MMA_SHORT * 10000),
            s \in RoundSet(mms9 * 99 * 105, MMA_SHORT * 10000)}
    ELSE {NoLevels}

\* lines 88-99
ResultsOf(d, ticker) ==
    LET current_price == Iloc(d.Close, 1)
        mms9 == Iloc(d.MMA9, 1)
        mms20 == Iloc(d.MMA20, 1)
        trend == TrendOf(d)
        is_close == IsCloseToMms20(current_price, mms20)
        cand == IsSetupCandidate(is_close, trend)
    IN  {[ticker |-> StripSA(ticker),
          current_price |-> current_price,
          mms9 |-> m9,
          mms20 |-> m20,
          trend |-> trend,
          is_setup_candidate |-> cand,
          is_setup_candidate_type |-> CandidateType(is_close),
          entry_price |-> l.entry_price,
          target_price |-> l.target_price,
          stop_loss_price |-> l.stop_loss_price] :
            m9 \in RoundSet(mms9, MMA_SHORT),
            m20 \in RoundSet(mms20, MMA_LONG),
            l \in Levels(cand, trend, mms9)}

InsufficientMessage == "Dados insuficientes ou insuficientes para MMA20"

\* the possible outcomes of a call: the frame as the call leaves it, and the
\* returned pair (result, error); result is <<>> for None, error "" for None
calculate_setup_conditions(d, ticker) ==
    IF InsufficientData(d)
    THEN {[df |-> d, result |-> <<>>, error |-> InsufficientMessage]}
    ELSE LET d2 == WithAverages(d)
         IN  {[df |-> d2, result |-> <<r>>, error |-> ""] : r \in ResultsOf(d2, ticker)}

----------------------------------------------------------------------------
(* The analysis alone, on every frame of the bounded family *)

IBOV_TICKERS == <<"PETR4.SA">>

CalcFrames ==
    {Frame(StepBars(n, p, q, k, c)) :
        n \in 0..MaxBars, p \in Prices, q \in Prices, k \in {0, 4, 5, 10}, c \in Prices}

InitCalc ==
    /\ pc = "call"
    /\ tickers = IBOV_TICKERS
    /\ i = 1
    /\ fetched = <<>>
    /\ df \in CalcFrames
    /\ result = <<>>
    /\ error = ""
    /\ analysis_results = <<>>
    /\ response = <<>>

CallCalculate ==
    /\ pc = "call"
    /\ \E o \in calculate_setup_conditions(df, tickers[i]) :
          /\ df' = o.df
          /\ result' = o.result
          /\ error' = o.error
    /\ pc' = "returned"
    /\ UNCHANGED <<tickers, i, fetched, analysis_results, response>>

NextCalc == CallCalculate

SpecCalc == InitCalc /\ [][NextCalc]_vars

----------------------------------------------------------------------------
(* analyze_ibov_stocks and handler, analysis.py lines 101-165 *)

TickerPool == <<"PETR4.SA", "VALE3.SA", "ITUB4.SA", "BBDC4.SA">>

\* the frames the provider returns in the batch runs: flat histories too
\* short for the analysis, and histories of 20 and 25 bars that rise, fall,
\* stay flat, or end far from their mean
BatchLens == {MMA_LONG, MMA_LONG + TrendMinExtra}
BatchShapes == {<<1000, 1020, 10, 1020>>, <<1020, 1000, 10, 1000>>,
                <<1000, 1000, 0, 1000>>, <<1000, 1000, 0, 3857>>}
BatchFrames ==
    {Frame(StepBars(n, sh[1], sh[2], sh[3], sh[4])) : n \in BatchLens, sh \in BatchShapes}
        \cup {Frame(StepBars(n, 1000, 1000, 0, 1000)) : n \in {0, 1, MMA_LONG - 1}}

\* the loop without the check of lines 115-116
DfEmpty_Never(d) == FALSE

\* line 115: df.empty
DfEmpty(d) == Len(d.Close) = 0

\* lines 131-137 with 0.0 in the level fields as in the other price fields
Placeholder_ZeroLevels(ticker) ==
    [ticker |-> StripSA(ticker),
     current_price |-> 0,
     mms9 |-> 0,
     mms20 |-> 0,
     trend |-> "Erro",
     is_setup_candidate |-> FALSE,
     is_setup_candidate_type |-> "bool",
     entry_price |-> 0,
     target_price |-> 0,
     stop_loss_price |-> 0]

\* lines 131-137: the entry appended when the iteration raised
Placeholder(ticker) ==
    [ticker |-> StripSA(ticker),
     current_price |-> 0,
     mms9 |-> 0,
     mms20 |-> 0,
     trend |-> "Erro",
     is_setup_candidate |-> FALSE,
     is_setup_candidate_type |-> "bool",
     entry_price |-> None,
     target_price |-> None,
     stop_loss_price |-> None]

\* the try/except around the whole loop: the first error ends the loop
AbortAfterError(k, n) == n + 1

\* line 138, `continue` inside the per-ticker try/except: the loop goes on
\* with the ticker after k (n is the number of configured tickers)
ContinueAfterError(k, n) == k + 1

\* json.dumps accepts Python bool, float (numpy.float64 is a float), str and
\* None, and raises TypeError on a numpy.bool_
Serializable(data) ==
    \A j \in 1..Len(data) : data[j].is_setup_candidate_type = "bool"

InitBatch ==
    /\ pc = "idle"
    /\ \E n \in 1..MaxTickers : tickers = SubSeq(TickerPool, 1, n)
    /\ i = 1
    /\ fetched = <<>>
    /\ df = Frame(<<>>)
    /\ result = <<>>
    /\ error = ""
    /\ analysis_results = <<>>
    /\ response = <<>>

\* handler enters its try and calls analyze_ibov_stocks (lines 146-147, 105)
HandlerCall ==
    /\ pc = "idle"
    /\ pc' = "loop"
    /\ analysis_results' = <<>>
    /\ i' = 1
    /\ UNCHANGED <<tickers, fetched, df, result, error, response>>

\* one iteration whose fetch (lines 110-112) raises: lines 127-138
IterFetchRaises ==
    /\ pc = "loop"
    /\ i <= Len(tickers)
    /\ fetched' = Append(fetched, [raised |-> TRUE, Close |-> <<>>])
    /\ analysis_results' = Append(analysis_results, Placeholder(tickers[i]))
    /\ i' = ContinueAfterError(i, Len(tickers))
    /\ UNCHANGED <<pc, tickers, df, result, error, response>>

\* one iteration whose fetch returns a frame: lines 112-125, and 127-138
\* when the frame is empty
IterFetched ==
    /\ pc = "loop"
    /\ i <= Len(tickers)
    /\ \E d \in BatchFrames :
          /\ fetched' = Append(fetched, [raised |-> FALSE, Close |-> d.Close])
          /\ IF DfEmpty(d)
             THEN /\ df' = d
                  /\ analysis_results' = Append(analysis_results, Placeholder(tickers[i]))
                  /\ i' = ContinueAfterError(i, Len(tickers))
                  /\ UNCHANGED <<result, error>>
             ELSE \E o \in calculate_setup_conditions(d, tickers[i]) :
                  /\ df' = o.df
                  /\ result' = o.result
                  /\ error' = o.error
                  /\ analysis_results' =
                        IF o.result # <<>>
                        THEN Append(analysis_results, o.result[1])
                        ELSE analysis_results
                  /\ i' = i + 1
    /\ UNCHANGED <<pc, tickers, response>>

\* line 140: return analysis_results
BatchReturn ==
    /\ pc = "loop"
    /\ i > Len(tickers)
    /\ pc' = "serialize"
    /\ UNCHANGED <<tickers, i, fetched, df, result, error, analysis_results, response>>

\* lines 149-157
Respond200 ==
    /\ pc = "serialize"
    /\ Serializable(analysis_results)
    /\ response' = <<[statusCode |-> 200,
                      headers |-> [Content_Type |-> "application/json",
                                   Access_Control_Allow_Origin |-> "*"],
                      body |-> [json |-> "array", items |-> analysis_results,
                                error |-> ""]]>>
    /\ pc' = "done"
    /\ UNCHANGED <<tickers, i, fetched, df, result, error, analysis_results>>

\* lines 158-165: json.dumps(data) raised inside the try
Respond500 ==
    /\ pc = "serialize"
    /\ ~Serializable(analysis_results)
    /\ response' = <<[statusCode |-> 500,
                      headers |-> [Access_Control_Allow_Origin |-> "*"],
                      body |-> [json |-> "object", items |-> <<>>,
                                error |-> "Erro interno do servidor"]]>>
    /\ pc' = "done"
    /\ UNCHANGED <<tickers, i, fetched, df, result, error, analysis_results>>

Next ==
    \/ HandlerCall
    \/ IterFetchRaises
    \/ IterFetched
    \/ BatchReturn
    \/ Respond200
    \/ Respond500

Spec == InitBatch /\ [][Next]_vars

\* the code is sequential: a step that can be taken is taken
FairSpec == Spec /\ WF_vars(Next)

----------------------------------------------------------------------------
(* Claims about calculate_setup_conditions, checked under SpecCalc *)

Returned == pc = "returned"
HasResult == pc = "returned" /\ result # <<>>

\* C1: is_setup_candidate is true iff the last close is within 1.5% of the
\* 20-bar mean (boundary included) and the trend is Alta or Baixa; a result
\* whose trend is Lateral or Indefinida is never a setup candidate.
C1_CandidateIffCloseAndDirectional ==
    HasResult =>
        LET close == df.Close
            n == Len(close)
            long == SumRange(close, n - 19, n)
            is_close == Abs(20 * close[n] - long) * 1000 <= 15 * long
        IN  result[1].is_setup_candidate
                <=> (is_close /\ result[1].trend \in {"Alta", "Baixa"})

\* C2: with at least 25 bars the trend compares the 20-bar mean at the last
\* bar with the 20-bar mean ending 5 positions before the last bar (Alta
\* above 1.002 times it, Baixa below 0.998 times it, else Lateral); with 20
\* to 24 bars the trend is Indefinida.
C2_TrendAgainstFiveBarsEarlier ==
    HasResult =>
        LET close == df.Close
            n == Len(close)
            current == SumRange(close, n - 19, n)
            past == SumRange(close, n - 24, n - 5)
        IN  result[1].trend =
                IF n >= 25
                THEN IF current * 1000 > past * 1002 THEN "Alta"
                     ELSE IF current * 1000 < past * 998 THEN "Baixa"
                     ELSE "Lateral"
                ELSE "Indefinida"

\* C3: a frame of fewer than 20 bars (the empty one included) yields no
\* result and an error message; a frame of 20 bars or more yields a result
\* and no error message.
C3_InsufficientDataIffShort ==
    Returned =>
        IF Len(df.Close) < 20
        THEN result = <<>> /\ error # ""
        ELSE result # <<>> /\ error = ""

C3_Witness ==
    /\ Returned
    /\ Len(df.Close) = 19
    /\ result = <<>>
    /\ error # ""

\* C5 as stated, target and stop taken from the rounded entry_price: for a
\* candidate with trend Alta entry_price = round(short_ma * 1.01, 2),
\* target = round(entry_price * 1.05, 2), stop = round(entry_price * 0.95, 2);
\* with trend Baixa entry_price = round(short_ma * 0.99, 2),
\* target = round(entry_price * 0.95, 2), stop = round(entry_price * 1.05, 2).
C5_LevelsFromRoundedEntry ==
    (HasResult /\ result[1].is_setup_candidate
               /\ result[1].trend \in {"Alta", "Baixa"}) =>
        LET close == df.Close
            n == Len(close)
            short == SumRange(close, n - 8, n)
            r == result[1]
            up == r.trend = "Alta"
        IN  /\ r.entry_price \in RoundSet(short * (IF up THEN 101 ELSE 99), 900)
            /\ r.target_price \in RoundSet(r.entry_price * (IF up THEN 105 ELSE 95), 100)
            /\ r.stop_loss_price \in RoundSet(r.entry_price * (IF up THEN 95 ELSE 105), 100)

\* C5 amended: entry_price is the rounded entry, while target and stop are
\* entry +/- 0.05 * entry of the UNROUNDED entry (short_ma * 1.01 for Alta,
\* short_ma * 0.99 for Baixa), each rounded to 2 decimals.
C5_LevelsFromUnroundedEntry ==
    (HasResult /\ result[1].is_setup_candidate
               /\ result[1].trend \in {"Alta", "Baixa"}) =>
        LET close == df.Close
            n == Len(close)
            short == SumRange(close, n - 8, n)
            r == result[1]
            up == r.trend = "Alta"
            entry == short * (IF up THEN 101 ELSE 99)
        IN  /\ r.entry_price \in RoundSet(entry, 900)
            /\ r.target_price \in RoundSet(entry * (IF up THEN 105 ELSE 95), 90000)
            /\ r.stop_loss_price \in RoundSet(entry * (IF up THEN 95 ELSE 105), 90000)

\* a candidate with trend Alta whose target differs from the one the rounded
\* entry would give
C5_Witness ==
    /\ HasResult
    /\ result[1].is_setup_candidate
    /\ result[1].trend = "Alta"
    /\ result[1].target_price \notin RoundSet(result[1].entry_price * 105, 100)

\* C9: the frame passed to calculate_setup_conditions is the same after the
\* call as before it, columns and values.
C9_InputFrameUnchanged ==
    [][(pc = "call" /\ pc' = "returned") => df' = df]_vars

----------------------------------------------------------------------------
(* Claims about analyze_ibov_stocks and handler, checked under Spec *)

BatchReturned == pc \in {"serialize", "done"}

\* C4: in the result of calculate_setup_conditions and in every entry of the
\* batch output, entry_price, target_price and stop_loss_price are non-null
\* only when is_setup_candidate is true and the trend is not Lateral, and
\* the three are all null or all non-null.
C4_LevelsOnlyForCandidates ==
    LET Ok(r) ==
            /\ (r.entry_price # None \/ r.target_price # None \/ r.stop_loss_price # None)
                   => (r.is_setup_candidate /\ r.trend # "Lateral")
            /\ \/ (r.entry_price = None /\ r.target_price = None
                                        /\ r.stop_loss_price = None)
               \/ (r.entry_price # None /\ r.target_price # None
                                        /\ r.stop_loss_price # None)
    IN  /\ result # <<>> => Ok(result[1])
        /\ \A j \in 1..Len(analysis_results) : Ok(analysis_results[j])

\* the output holds an entry with levels, a candidate entry without levels
\* and an entry that is not a candidate
C4_Witness ==
    /\ BatchReturned
    /\ \E j \in 1..Len(analysis_results) :
          analysis_results[j].trend = "Baixa" /\ analysis_results[j].entry_price # None
    /\ \E j \in 1..Len(analysis_results) :
          analysis_results[j].is_setup_candidate /\ analysis_results[j].entry_price = None
    /\ \E j \in 1..Len(analysis_results) : ~analysis_results[j].is_setup_candidate

\* C6: whatever tickers raise (in the fetch, or on an empty frame), every
\* configured ticker is fetched, and when every ticker that does not raise
\* has at least 20 bars the returned list has one entry per configured
\* ticker, in configured order, the raising ones with trend "Erro" and the
\* others with the analysis of their own frame; the batch always returns.
\* Checked under FairSpec.
C6_ErrorIsolation ==
    /\ [](LET Raises(j) == fetched[j].raised \/ Len(fetched[j].Close) = 0
          IN  /\ pc = "loop" => Len(fetched) = i - 1
              /\ BatchReturned =>
                   /\ Len(fetched) = Len(tickers)
                   /\ (\A j \in 1..Len(fetched) :
                          Raises(j) \/ Len(fetched[j].Close) >= 20) =>
                        /\ Len(analysis_results) = Len(tickers)
                        /\ \A j \in 1..Len(tickers) :
                              /\ analysis_results[j].ticker = StripSA(tickers[j])
                              /\ Raises(j) => analysis_results[j].trend = "Erro"
                              /\ ~Raises(j) =>
                                    /\ analysis_results[j].trend # "Erro"
                                    /\ analysis_results[j].current_price
                                          = fetched[j].Close[Len(fetched[j].Close)])
    /\ <>BatchReturned

\* three tickers, the first one raises, the two after it are analysed
C6_Witness ==
    /\ BatchReturned
    /\ Len(tickers) = 3
    /\ fetched[1].raised
    /\ ~fetched[2].raised /\ Len(fetched[2].Close) >= 20
    /\ ~fetched[3].raised /\ Len(fetched[3].Close) >= 20
    /\ Len(analysis_results) = 3
    /\ analysis_results[1].trend = "Erro"
    /\ analysis_results[3].trend \in {"Alta", "Baixa", "Lateral", "Indefinida"}

\* C7 as stated: the entry appended for a ticker that raised has trend
\* "Erro", is not a candidate, and current_price, mms9, mms20, entry_price,
\* target_price and stop_loss_price are all null.
C7_PlaceholderAllNull ==
    \A j \in 1..Len(analysis_results) :
        analysis_results[j].trend = "Erro" =>
            /\ ~analysis_results[j].is_setup_candidate
            /\ analysis_results[j].current_price = None
            /\ analysis_results[j].mms9 = None
            /\ analysis_results[j].mms20 = None
            /\ analysis_results[j].entry_price = None
            /\ analysis_results[j].target_price = None
            /\ analysis_results[j].stop_loss_price = None

\* C7 amended: the iteration of a ticker that raised appends an entry with
\* trend "Erro", is_setup_candidate false, entry_price, target_price and
\* stop_loss_price null, and current_price, mms9 and mms20 equal to 0.0.
C7_PlaceholderNullLevelsZeroPrices ==
    LET IsPlaceholder(r) ==
            /\ r.trend = "Erro"
            /\ ~r.is_setup_candidate
            /\ r.entry_price = None /\ r.target_price = None /\ r.stop_loss_price = None
            /\ r.current_price = 0 /\ r.mms9 = 0 /\ r.mms20 = 0
    IN  /\ \A j \in 1..Len(analysis_results) :
              analysis_results[j].trend = "Erro" => IsPlaceholder(analysis_results[j])
        /\ (pc = "loop" /\ fetched # <<>>
                /\ (fetched[Len(fetched)].raised \/ Len(fetched[Len(fetched)].Close) = 0))
             => /\ analysis_results # <<>>
                /\ IsPlaceholder(analysis_results[Len(analysis_results)])

C7_Witness ==
    /\ pc = "loop"
    /\ fetched # <<>>
    /\ fetched[Len(fetched)].raised
    /\ analysis_results # <<>>
    /\ analysis_results[Len(analysis_results)].trend = "Erro"
    /\ analysis_results[Len(analysis_results)].current_price = 0

\* C8: handler returns 200 with a JSON array body or 500 with a JSON
\* {"error": string} body, with Access-Control-Allow-Origin "*" in both, and
\* it returns 200 whenever the batch returned normally (the batch has
\* returned normally whenever handler gets to build its response).
C8_Status200WhenBatchReturns ==
    pc = "done" =>
        /\ response # <<>>
        /\ response[1].headers.Access_Control_Allow_Origin = "*"
        /\ \/ response[1].statusCode = 200 /\ response[1].body.json = "array"
           \/ response[1].statusCode = 500 /\ response[1].body.json = "object"
        /\ response[1].statusCode = 200

\* C10 as stated: a ticker fetched with fewer than 20 bars, 0 bars included,
\* contributes no entry: the output has one entry per configured ticker
\* less the tickers fetched with fewer than 20 bars.
C10_ShortHistoriesOmittedUniformly ==
    BatchReturned =>
        Len(analysis_results) =
            Len(tickers) - Cardinality({j \in 1..Len(fetched) :
                                ~fetched[j].raised /\ Len(fetched[j].Close) < 20})

\* C10 amended: a ticker fetched with 1 to 19 bars contributes no entry,
\* while a ticker fetched with 0 bars contributes one "Erro" entry, as a
\* ticker whose fetch raises does: the output has one entry per configured
\* ticker less the tickers fetched with 1 to 19 bars, and as many "Erro"
\* entries as tickers that raised or came back empty.
C10_OnlyNonEmptyShortHistoriesOmitted ==
    BatchReturned =>
        /\ Len(analysis_results) =
              Len(tickers) - Cardinality({j \in 1..Len(fetched) :
                                  /\ ~fetched[j].raised
                                  /\ Len(fetched[j].Close) >= 1
                                  /\ Len(fetched[j].Close) < 20})
        /\ Cardinality({j \in 1..Len(analysis_results) : analysis_results[j].trend = "Erro"})
              = Cardinality({j \in 1..Len(fetched) :
                                  fetched[j].raised \/ Len(fetched[j].Close) = 0})

\* an empty history, a 19-bar history and a full one in the same batch
C10_Witness ==
    /\ BatchReturned
    /\ Len(tickers) = 3
    /\ ~fetched[1].raised /\ Len(fetched[1].Close) = 0
    /\ ~fetched[2].raised /\ Len(fetched[2].Close) = 19
    /\ ~fetched[3].raised /\ Len(fetched[3].Close) = 20
    /\ Len(analysis_results) = 2
    /\ analysis_results[1].trend = "Erro"

====
